---- MODULE Spec2Model ----
(***************************************************************************)
(* The undoable text editor of src/src/command.py: a TextBuffer mutated    *)
(* only through InsertCommand / DeleteCommand objects, and a TextEditor    *)
(* that executes commands and keeps them in command_history for undo().    *)
(*                                                                         *)
(* Strings are sequences of characters.  Python's slice semantics          *)
(* (negative indices count from the end, indices are clamped to the        *)
(* string) are modelled as CPython computes them, because TextBuffer       *)
(* performs no range check of its own.                                     *)
(***************************************************************************)
EXTENDS Integers, Sequences, FiniteSets, TLC

\* ------------------------------------------------------------------ bounds
\* Longest buffer an edit call may produce.
MaxLen == 3
\* Number of state-changing calls other than TextEditor.undo in one run.
MaxEdits == 2
\* Number of those that the caller makes on a command or a buffer itself, or
\* on execute_command, instead of going through insert / delete / append.
MaxDirect == 1

\* The texts handed to TextEditor(initial_text).
InitTexts == {<< >>, <<"b">>, <<"a", "b">>}
\* The texts handed to insert and append: empty, one and two characters.
Texts == {<< >>, <<"a">>, <<"b", "a">>}

\* --------------------------------------------------------- Python strings
\* PySlice_AdjustIndices for step 1: an index i of a slice over a string of
\* length n (negative counts from the end, then clamped to 0..n).
AdjustIndex(i, n) ==
    IF i < 0 THEN (IF i + n < 0 THEN 0 ELSE i + n)
    ELSE IF i > n THEN n ELSE i

\* s[:stop]
SliceTo(s, stop) == SubSeq(s, 1, AdjustIndex(stop, Len(s)))

\* s[start:]
SliceFrom(s, start) == SubSeq(s, AdjustIndex(start, Len(s)) + 1, Len(s))

\* s[start:stop]
Slice(s, start, stop) ==
    LET lo == AdjustIndex(start, Len(s))
        hi == AdjustIndex(stop, Len(s))
    IN IF lo < hi THEN SubSeq(s, lo + 1, hi) ELSE << >>

\* -------------------------------------------------------------- TextBuffer
\* A faulty insert that overwrites the character at the position.
BufferInsertOverwrite(buf, at, t) ==
    SubSeq(buf, 1, AdjustIndex(at, Len(buf))) \o t
      \o SubSeq(buf, AdjustIndex(at + 1, Len(buf)) + 1, Len(buf))

\* TextBuffer.insert(at, text): the new buffer content.
BufferInsert(buf, at, t) == SliceTo(buf, at) \o t \o SliceFrom(buf, at)

\* A faulty delete_range that returns one character less than it removes.
BufferDeleteRangeShort(buf, start, length) ==
    LET lo == AdjustIndex(start, Len(buf))
        hi == AdjustIndex(start + length, Len(buf))
    IN [text    |-> SubSeq(buf, 1, lo) \o SubSeq(buf, hi + 1, Len(buf)),
        deleted |-> IF lo < hi - 1 THEN SubSeq(buf, lo + 1, hi - 1) ELSE << >>]

\* TextBuffer.delete_range(start, length): the new content and the return
\* value.
BufferDeleteRange(buf, start, length) ==
    [text    |-> SliceTo(buf, start) \o SliceFrom(buf, start + length),
     deleted |-> Slice(buf, start, start + length)]

\* ---------------------------------------------------------------- Commands
\* Python's None, and a present value v, for DeleteCommand.deletion.
None == << >>
Some(v) == << v >>

\* InsertCommand.__init__ / DeleteCommand.__init__.  text_buffer names the
\* TextBuffer object the command holds: "ed" is the editor's own buffer,
\* "other" a buffer of the caller.  id is the identity of the object, 0 until
\* the object is placed in the store below.  The fields executed and undone
\* count the calls of execute() and undo() on the object.
InsertCommand(text_buffer, at, t) ==
    [kind |-> "insert", text_buffer |-> text_buffer, position |-> at,
     text |-> t, length |-> 0, deletion |-> None,
     id |-> 0, executed |-> 0, undone |-> 0]

DeleteCommand(text_buffer, at, length) ==
    [kind |-> "delete", text_buffer |-> text_buffer, position |-> at,
     text |-> << >>, length |-> length, deletion |-> None,
     id |-> 0, executed |-> 0, undone |-> 0]

\* A faulty execute() whose DeleteCommand does not keep what it removed.
ExecuteForgetsDeletion(cmd, buf) ==
    IF cmd.kind = "insert"
    THEN [text |-> SubSeq(buf, 1, AdjustIndex(cmd.position, Len(buf))) \o cmd.text
                     \o SubSeq(buf, AdjustIndex(cmd.position, Len(buf)) + 1, Len(buf)),
          cmd  |-> [cmd EXCEPT !.executed = @ + 1]]
    ELSE [text |-> SubSeq(buf, 1, AdjustIndex(cmd.position, Len(buf)))
                     \o SubSeq(buf, AdjustIndex(cmd.position + cmd.length, Len(buf)) + 1,
                               Len(buf)),
          cmd  |-> [cmd EXCEPT !.executed = @ + 1]]

\* cmd.execute(), buf being the content of the buffer the command holds: the
\* new content of that buffer and the command object after the call.
Execute(cmd, buf) ==
    IF cmd.kind = "insert"
    THEN [text |-> BufferInsert(buf, cmd.position, cmd.text),
          cmd  |-> [cmd EXCEPT !.executed = @ + 1]]
    ELSE LET r == BufferDeleteRange(buf, cmd.position, cmd.length)
         IN [text |-> r.text,
             cmd  |-> [cmd EXCEPT !.deletion = Some(r.deleted),
                                  !.executed = @ + 1]]

\* A faulty undo() whose InsertCommand removes one character whatever the
\* length of the inserted text.
CommandUndoOneChar(cmd, buf) ==
    IF cmd.kind = "insert"
    THEN [text   |-> BufferDeleteRange(buf, cmd.position, 1).text,
          cmd    |-> [cmd EXCEPT !.undone = @ + 1],
          raised |-> "none"]
    ELSE IF cmd.deletion = None
         THEN [text |-> buf, cmd |-> cmd, raised |-> "AssertionError"]
         ELSE [text   |-> BufferInsert(buf, cmd.position, cmd.deletion[1]),
               cmd    |-> [cmd EXCEPT !.undone = @ + 1],
               raised |-> "none"]

\* cmd.undo(), buf being the content of the buffer the command holds: the new
\* content of that buffer, the command object after the call, and the
\* exception raised ("none" when it returns).
CommandUndo(cmd, buf) ==
    IF cmd.kind = "insert"
    THEN [text   |-> BufferDeleteRange(buf, cmd.position, Len(cmd.text)).text,
          cmd    |-> [cmd EXCEPT !.undone = @ + 1],
          raised |-> "none"]
    ELSE IF cmd.deletion = None
         THEN [text |-> buf, cmd |-> cmd, raised |-> "AssertionError"]
         ELSE [text   |-> BufferInsert(buf, cmd.position, cmd.deletion[1]),
               cmd    |-> [cmd EXCEPT !.undone = @ + 1],
               raised |-> "none"]

\* ------------------------------------------------------------ object store
\* A program state st is a record: text (the content of the editor's buffer),
\* other (the content of a buffer of the caller), hist (command_history),
\* own (the command objects the caller built, by id) and kept (a reference
\* the caller read from command_history and kept, or None).  An object is
\* written down, with its attributes, at every place that refers to it; the
\* places that hold the same object hold the same id.

\* The content of the buffer object a command holds.
BufferOf(st, text_buffer) == IF text_buffer = "ed" THEN st.text ELSE st.other

\* Assignment to the text attribute of that buffer object.
WithBuffer(st, text_buffer, content) ==
    IF text_buffer = "ed" THEN [st EXCEPT !.text = content]
    ELSE [st EXCEPT !.other = content]

\* Whether some reference holds the object with identity n.
Live(st, n) ==
    \/ \E k \in 1 .. Len(st.own) : st.own[k].id = n
    \/ \E i \in 1 .. Len(st.hist) : st.hist[i].id = n
    \/ \E i \in 1 .. Len(st.kept) : st.kept[i].id = n

\* The identity of a newly built object: one no live object has.
NewId(st) ==
    CHOOSE n \in 1 .. (Len(st.own) + Len(st.hist) + Len(st.kept) + 1) : ~Live(st, n)

\* Assignment to the attributes of a command object: every reference to the
\* object (the caller's, and each place of the history that holds it) sees
\* the new attributes.
Store(st, cmd) ==
    IF ~Live(st, cmd.id) THEN st
    ELSE [st EXCEPT
       !.own = [k \in 1 .. Len(@) |-> IF @[k].id = cmd.id THEN cmd ELSE @[k]],
       !.hist = [i \in 1 .. Len(@) |-> IF @[i].id = cmd.id THEN cmd ELSE @[i]],
       !.kept = [i \in 1 .. Len(@) |-> IF @[i].id = cmd.id THEN cmd ELSE @[i]]]

\* cmd.execute() as a statement of the program in state st.
CommandExecute(st, cmd) ==
    LET r == Execute(cmd, BufferOf(st, cmd.text_buffer))
    IN [st |-> Store(WithBuffer(st, cmd.text_buffer, r.text), r.cmd),
        cmd |-> r.cmd, raised |-> "none"]

\* cmd.undo() as a statement of the program in state st.
CommandReverse(st, cmd) ==
    LET r == CommandUndo(cmd, BufferOf(st, cmd.text_buffer))
    IN [st |-> IF r.raised = "none"
               THEN Store(WithBuffer(st, cmd.text_buffer, r.text), r.cmd)
               ELSE st,
        cmd |-> r.cmd, raised |-> r.raised]

\* -------------------------------------------------------------- TextEditor
\* TextEditor.execute_command(cmd) in state st: the state after the call and
\* the exception raised.
ExecuteCommand(st, cmd) ==
    LET r == CommandExecute(st, cmd)
    IN [st |-> [r.st EXCEPT !.hist = Append(@, r.cmd)], raised |-> "none"]

\* TextEditor.insert(at, text)
EditorInsert(st, at, t) ==
    ExecuteCommand(st, [InsertCommand("ed", at, t) EXCEPT !.id = NewId(st)])

\* TextEditor.delete(at, len)
EditorDelete(st, at, length) ==
    ExecuteCommand(st, [DeleteCommand("ed", at, length) EXCEPT !.id = NewId(st)])

\* A faulty append that inserts before the last character.
EditorAppendOffByOne(st, t) ==
    ExecuteCommand(st, [InsertCommand("ed", Len(st.text) - 1, t)
                          EXCEPT !.id = NewId(st)])

\* TextEditor.append(text)
EditorAppend(st, t) == EditorInsert(st, Len(st.text), t)

\* The part of undo() after a successful pop of last_cmd, s1 being the state
\* with the history already shortened.
Reverse(s1, last_cmd) ==
    LET r == CommandReverse(s1, last_cmd)
    IN [st |-> r.st, raised |-> r.raised, popped |-> Some(r.cmd)]

\* A faulty undo() that reverses the oldest command instead of the newest.
EditorUndoFifo(st) ==
    IF st.hist = << >>
    THEN [st |-> st, raised |-> "none", popped |-> << >>]
    ELSE Reverse([st EXCEPT !.hist = SubSeq(@, 2, Len(@))], st.hist[1])

\* A faulty undo() that lets the IndexError of the empty pop escape.
EditorUndoUncaught(st) ==
    IF st.hist = << >>
    THEN [st |-> st, raised |-> "IndexError", popped |-> << >>]
    ELSE Reverse([st EXCEPT !.hist = SubSeq(@, 1, Len(@) - 1)],
                 st.hist[Len(st.hist)])

\* A faulty undo() that reads the newest command without removing it.
EditorUndoPeek(st) ==
    IF st.hist = << >>
    THEN [st |-> st, raised |-> "none", popped |-> << >>]
    ELSE Reverse(st, st.hist[Len(st.hist)])

\* TextEditor.undo(): popping an empty list raises IndexError, which is
\* caught and makes the call return.
EditorUndo(st) ==
    IF st.hist = << >>
    THEN [st |-> st, raised |-> "none", popped |-> None]
    ELSE Reverse([st EXCEPT !.hist = SubSeq(@, 1, Len(@) - 1)],
                 st.hist[Len(st.hist)])

\* ------------------------------------------------------------------- state
VARIABLES
    text,             \* TextEditor.text.text, the content of the editor's buffer
    other,            \* the content of a TextBuffer the caller made
    command_history,  \* TextEditor.command_history
    own,              \* the command objects the caller built
    kept,             \* the reference the caller took from command_history
    snaps,            \* per history entry: the editor's content before that call
    nEdits,           \* insert / delete / append calls made
    nDirect,          \* calls the caller made on execute_command, a command or a buffer
    nPops,            \* undo() calls that found a non-empty history
    last              \* the last call: its name, arguments, outcome, pre-state

vars == <<text, other, command_history, own, kept, snaps,
          nEdits, nDirect, nPops, last>>

\* The program state as the operators above take it.
State == [text |-> text, other |-> other, hist |-> command_history,
          own |-> own, kept |-> kept]

\* The arguments a caller may pass in the current state: positions and
\* lengths on both sides of the valid range.
Positions == (0 - 1) .. (Len(text) + 1)
Lengths == (0 - 1) .. (Len(text) + 1)

\* The command objects the caller builds itself: a DeleteCommand on the
\* editor's buffer and an InsertCommand on its own buffer.
CallerCommands ==
    << [DeleteCommand("ed", 0, 1) EXCEPT !.id = 1],
       [InsertCommand("other", 0, <<"a">>) EXCEPT !.id = 2] >>

\* The content of the caller's buffer when it is made.
OtherText == <<"z", "z">>

\* The command objects the caller can name: the ones it built, the ones in
\* ed.command_history, the one it kept.
Refs ==
    {own[k] : k \in 1 .. Len(own)}
      \cup {command_history[i] : i \in 1 .. Len(command_history)}
      \cup {kept[i] : i \in 1 .. Len(kept)}

NoCall == [op |-> "init", at |-> 0, txt |-> << >>, len |-> 0,
           raised |-> "none", preText |-> << >>, preHist |-> << >>,
           cmd |-> None, before |-> None]

Init ==
    /\ text \in InitTexts
    /\ other = OtherText
    /\ command_history = << >>
    /\ own = CallerCommands
    /\ kept = None
    /\ snaps = << >>
    /\ nEdits = 0
    /\ nDirect = 0
    /\ nPops = 0
    /\ last = NoCall

\* The state after a call, st being the program state it leaves.
Becomes(st) ==
    /\ text' = st.text
    /\ other' = st.other
    /\ command_history' = st.hist
    /\ own' = st.own
    /\ kept' = st.kept

\* The state update of a call that went through execute_command, r being its
\* result.
Executed(r, op, at, t, length) ==
    /\ nEdits + nDirect < MaxEdits
    /\ Len(r.st.text) <= MaxLen
    /\ Len(r.st.other) <= MaxLen
    /\ Becomes(r.st)
    /\ snaps' = Append(snaps, text)
    /\ nPops' = nPops
    /\ last' = [op |-> op, at |-> at, txt |-> t, len |-> length,
                raised |-> r.raised, preText |-> text,
                preHist |-> command_history,
                cmd |-> Some(r.st.hist[Len(r.st.hist)]), before |-> Some(text)]

Insert ==
    /\ \E at \in Positions, t \in Texts :
         Executed(EditorInsert(State, at, t), "insert", at, t, 0)
    /\ nEdits' = nEdits + 1
    /\ nDirect' = nDirect

Delete ==
    /\ \E at \in Positions, length \in Lengths :
         Executed(EditorDelete(State, at, length), "delete", at, << >>, length)
    /\ nEdits' = nEdits + 1
    /\ nDirect' = nDirect

AppendText ==
    /\ \E t \in Texts :
         Executed(EditorAppend(State, t), "append", 0, t, 0)
    /\ nEdits' = nEdits + 1
    /\ nDirect' = nDirect

Undo ==
    LET r == EditorUndo(State)
    IN /\ Becomes(r.st)
       /\ snaps' = SubSeq(snaps, 1, Len(snaps) - 1)
       /\ nEdits' = nEdits
       /\ nDirect' = nDirect
       /\ nPops' = IF command_history = << >> THEN nPops ELSE nPops + 1
       /\ last' = [op |-> "undo", at |-> 0, txt |-> << >>, len |-> 0,
                   raised |-> r.raised, preText |-> text,
                   preHist |-> command_history, cmd |-> r.popped,
                   before |-> IF snaps = << >> THEN None
                              ELSE Some(snaps[Len(snaps)])]

\* ------------------------------------------------- the caller's own calls
\* The caller hands a command object it can name to execute_command, for the
\* first time or again.
ExecuteCommandCall ==
    /\ nDirect < MaxDirect
    /\ \E c \in Refs :
         Executed(ExecuteCommand(State, c), "execute_command", c.id, << >>, 0)
    /\ nEdits' = nEdits
    /\ nDirect' = nDirect + 1

\* The state update of a call that does not touch the history, r being its
\* result.
Called(st, raised, op, at, t, length, cmd) ==
    /\ nDirect < MaxDirect
    /\ nEdits + nDirect < MaxEdits
    /\ Len(st.text) <= MaxLen
    /\ Len(st.other) <= MaxLen
    /\ Becomes(st)
    /\ snaps' = snaps
    /\ nEdits' = nEdits
    /\ nDirect' = nDirect + 1
    /\ nPops' = nPops
    /\ last' = [op |-> op, at |-> at, txt |-> t, len |-> length,
                raised |-> raised, preText |-> text,
                preHist |-> command_history, cmd |-> cmd, before |-> None]

\* The caller calls execute() on a command object it can name.
CommandExecuteCall ==
    \E c \in Refs :
        LET r == CommandExecute(State, c)
        IN Called(r.st, r.raised, "Command.execute", c.id, << >>, 0, Some(r.cmd))

\* The caller calls undo() on a command object it can name.
CommandUndoCall ==
    \E c \in Refs :
        LET r == CommandReverse(State, c)
        IN Called(r.st, r.raised, "Command.undo", c.id, << >>, 0, Some(r.cmd))

\* The arguments of the caller's calls on a buffer.
DirectPositions == {0, 1}
DirectTexts == {<<"b">>}
DirectLengths == {1}

\* The caller calls insert on a buffer: ed.text.insert(at, text), or the same
\* on its own buffer.
BufferInsertCall ==
    \E b \in {"ed", "other"}, at \in DirectPositions, t \in DirectTexts :
        Called(WithBuffer(State, b, BufferInsert(BufferOf(State, b), at, t)),
               "none", "TextBuffer.insert", at, t, 0, None)

\* The caller calls delete_range on a buffer.
BufferDeleteRangeCall ==
    \E b \in {"ed", "other"}, at \in DirectPositions, length \in DirectLengths :
        Called(WithBuffer(State, b,
                          BufferDeleteRange(BufferOf(State, b), at, length).text),
               "none", "TextBuffer.delete_range", at, << >>, length, None)

\* The caller reads a command object out of ed.command_history and keeps the
\* reference, or drops the one it kept.
KeepReference ==
    /\ \/ \E i \in 1 .. Len(command_history) : kept' = Some(command_history[i])
       \/ kept' = None
    /\ kept' # kept
    /\ last' = [NoCall EXCEPT !.op = "keep", !.preText = text,
                              !.preHist = command_history]
    /\ UNCHANGED <<text, other, command_history, own, snaps,
                   nEdits, nDirect, nPops>>

\* Every method of TextEditor, TextBuffer and the commands.
Next ==
    \/ Insert \/ Delete \/ AppendText \/ Undo
    \/ ExecuteCommandCall
    \/ CommandExecuteCall \/ CommandUndoCall
    \/ BufferInsertCall \/ BufferDeleteRangeCall
    \/ KeepReference

Spec == Init /\ [][Next]_vars

\* The callers that use the editing methods only: insert, delete, append and
\* undo.
NextMethods == Insert \/ Delete \/ AppendText \/ Undo

SpecMethods == Init /\ [][NextMethods]_vars

\* The callers that use the editing methods only and respect the ranges the
\* specification gives: insert with 0 <= at <= len(buffer), delete with
\* 0 <= at, 0 <= len, at + len <= len(buffer).
InsertWithinRange ==
    /\ \E at \in 0 .. Len(text), t \in Texts :
         Executed(EditorInsert(State, at, t), "insert", at, t, 0)
    /\ nEdits' = nEdits + 1
    /\ nDirect' = nDirect

DeleteWithinRange ==
    /\ \E at \in 0 .. Len(text) : \E length \in 0 .. (Len(text) - at) :
         Executed(EditorDelete(State, at, length), "delete", at, << >>, length)
    /\ nEdits' = nEdits + 1
    /\ nDirect' = nDirect

NextInRange == InsertWithinRange \/ DeleteWithinRange \/ AppendText \/ Undo

SpecInRange == Init /\ [][NextInRange]_vars

\* ------------------------------------------------------------ range tests
\* The ranges the specification calls "in range".
InsertInRange(buf, at) == 0 <= at /\ at <= Len(buf)
DeleteInRange(buf, at, length) == 0 <= at /\ 0 <= length /\ at + length <= Len(buf)
CmdInRange(cmd, buf) ==
    IF cmd.kind = "insert" THEN InsertInRange(buf, cmd.position)
    ELSE DeleteInRange(buf, cmd.position, cmd.length)

EditOps == {"insert", "delete", "append"}
Front(s) == SubSeq(s, 1, Len(s) - 1)

\* k consecutive undo() calls from state st.
RECURSIVE UndoTimes(_, _)
UndoTimes(st, k) ==
    IF k = 0 THEN st ELSE UndoTimes(EditorUndo(st).st, k - 1)

\* The last call was an undo() that popped a command of the given kind on the
\* editor's buffer, which had been executed once, when it was recorded.
UndidKind(kind) ==
    /\ last.op = "undo"
    /\ last.cmd # None
    /\ last.cmd[1].kind = kind
    /\ last.cmd[1].text_buffer = "ed"
    /\ last.cmd[1].executed = 1

\* --------------------------------------------------------------- claims
\* C1: in every reachable state, insert(at, text) with 0 <= at <= len(buffer)
\* immediately followed by undo() leaves the buffer content and the history
\* as they were before the insert; and whenever an undo() has just reversed
\* an in-range insert from the content that insert produced, the content is
\* the one before the insert.
RoundTripInsert ==
    /\ \A at \in 0 .. Len(text), t \in Texts :
         LET s1 == EditorInsert(State, at, t)
             s2 == EditorUndo(s1.st)
         IN /\ s1.raised = "none" /\ s2.raised = "none"
            /\ s2.st.text = text
            /\ s2.st.hist = command_history
            /\ s2.st = State
    /\ ( /\ UndidKind("insert")
         /\ InsertInRange(last.before[1], last.cmd[1].position)
         /\ last.preText = BufferInsert(last.before[1], last.cmd[1].position,
                                        last.cmd[1].text) )
       => /\ text = last.before[1]
          /\ command_history = Front(last.preHist)

\* One insert of a non-empty text in range, then one undo, and nothing else
\* but undo() calls on the empty history.
RoundTripInsertWitness ==
    /\ UndidKind("insert")
    /\ nEdits = 1 /\ nDirect = 0 /\ nPops = 1
    /\ last.cmd[1].text # << >>
    /\ InsertInRange(last.before[1], last.cmd[1].position)
    /\ last.cmd[1].position < Len(last.before[1])
    /\ last.preText # text
    /\ text = last.before[1]

\* C2: in every reachable state, delete(at, len) with 0 <= at, 0 <= len and
\* at + len <= len(buffer) captures exactly the removed substring, and an
\* immediately following undo() restores the buffer content (and the
\* history).
RoundTripDelete ==
    /\ \A at \in 0 .. Len(text) : \A length \in 0 .. (Len(text) - at) :
         LET s1 == EditorDelete(State, at, length)
             s2 == EditorUndo(s1.st)
         IN /\ s1.raised = "none" /\ s2.raised = "none"
            /\ s1.st.hist[Len(s1.st.hist)].deletion
                 = Some(SubSeq(text, at + 1, at + length))
            /\ s1.st.text
                 = SubSeq(text, 1, at) \o SubSeq(text, at + length + 1, Len(text))
            /\ s2.st.text = text
            /\ s2.st.hist = command_history
            /\ s2.st = State
    /\ ( /\ UndidKind("delete")
         /\ DeleteInRange(last.before[1], last.cmd[1].position, last.cmd[1].length)
         /\ last.preText = BufferDeleteRange(last.before[1], last.cmd[1].position,
                                             last.cmd[1].length).text )
       => /\ text = last.before[1]
          /\ command_history = Front(last.preHist)

\* One in-range delete of a non-empty range, then one undo.
RoundTripDeleteWitness ==
    /\ UndidKind("delete")
    /\ nEdits = 1 /\ nDirect = 0 /\ nPops = 1
    /\ last.cmd[1].length > 0
    /\ DeleteInRange(last.before[1], last.cmd[1].position, last.cmd[1].length)
    /\ last.cmd[1].deletion # Some(<< >>)
    /\ last.preText # text
    /\ text = last.before[1]

\* C3 (under SpecInRange, where the calls are insert, delete, append and undo
\* and every edit is in range): in every reachable state, with edits and
\* undos interleaved in any way, k consecutive undo() calls (0 <= k <= depth)
\* leave the content the buffer had before the k-th most recent not-yet-undone
\* edit, and the history without its last k entries; with k = depth that is
\* the content before the first of them.
LifoMultiUndo ==
    \A k \in 0 .. Len(command_history) :
        LET n == Len(command_history)
            r == UndoTimes(State, k)
        IN /\ r.text = (IF k = 0 THEN text ELSE snaps[n - k + 1])
           /\ r.hist = SubSeq(command_history, 1, n - k)

\* Two in-range edits were stacked, the second has just been undone, giving
\* back the content between them, and one more undo gives back the content
\* before the first.
LifoMultiUndoWitness ==
    /\ last.op = "undo"
    /\ Len(last.preHist) = 2
    /\ Len(command_history) = 1
    /\ CmdInRange(last.cmd[1], last.before[1])
    /\ CmdInRange(command_history[1], snaps[1])
    /\ text = last.before[1]
    /\ text # last.preText
    /\ text # snaps[1]
    /\ EditorUndo(State).st.text = snaps[1]

\* C4: insert(at, text) with at < 0 or at > len(buffer) fails with OutOfRange
\* and leaves the buffer content and the history as before the call.
InsertBoundaryRejection ==
    (last.op = "insert" /\ ~InsertInRange(last.preText, last.at))
    => /\ last.raised = "OutOfRange"
       /\ text = last.preText
       /\ command_history = last.preHist

\* C5: delete(at, len) with at < 0, len < 0 or at + len > len(buffer) fails
\* with OutOfRange, truncates nothing, and leaves the buffer content and the
\* history as before the call.
DeleteBoundaryRejection ==
    (last.op = "delete" /\ ~DeleteInRange(last.preText, last.at, last.len))
    => /\ last.raised = "OutOfRange"
       /\ text = last.preText
       /\ command_history = last.preHist

\* C6: undo() on an empty history returns normally and leaves the buffer
\* content unchanged and the history empty, on a fresh editor and after all
\* edits have been undone, however often it is repeated.
EmptyUndoNoOp ==
    /\ (last.op = "undo" /\ last.preHist = << >>)
       => /\ last.raised = "none"
          /\ text = last.preText
          /\ command_history = << >>
    /\ command_history = << >>
       => \A k \in 1 .. 3 :
            /\ EditorUndo(State).raised = "none"
            /\ UndoTimes(State, k) = State

\* An edit was made and undone, and then undo() was called on the empty
\* history.
EmptyUndoNoOpWitness ==
    /\ last.op = "undo"
    /\ last.preHist = << >>
    /\ last.cmd = None
    /\ nPops >= 1
    /\ nEdits >= 1
    /\ text # << >>

\* C7: append(text) on a buffer of length L gives the content and the history
\* that insert(L, text) gives: the text at the end of the old content, one
\* new executed InsertCommand with position L at the end of the history; one
\* undo() reverts it.
AppendAsInsert ==
    last.op = "append"
    => LET L == Len(last.preText)
           pre == [State EXCEPT !.text = last.preText, !.hist = last.preHist]
           viaInsert == EditorInsert(pre, L, last.txt)
           undone == EditorUndo(State)
       IN /\ last.raised = "none"
          /\ text = last.preText \o last.txt
          /\ Len(command_history) = Len(last.preHist) + 1
          /\ SubSeq(command_history, 1, Len(last.preHist)) = last.preHist
          /\ [command_history[Len(command_history)] EXCEPT !.id = 0]
               = [InsertCommand("ed", L, last.txt) EXCEPT !.executed = 1]
          /\ State = viaInsert.st
          /\ undone.st.text = last.preText
          /\ undone.st.hist = last.preHist

\* A non-empty text was appended to a non-empty buffer.
AppendAsInsertWitness ==
    /\ last.op = "append"
    /\ last.txt # << >>
    /\ last.preText # << >>
    /\ text = last.preText \o last.txt

\* C8: insert(at, text) with 0 <= at <= len(B) makes the content
\* B[0..at) text B[at..len(B)), and the length grows by len(text).
InsertSemantics ==
    (last.op = "insert" /\ InsertInRange(last.preText, last.at))
    => /\ text = SubSeq(last.preText, 1, last.at) \o last.txt
                   \o SubSeq(last.preText, last.at + 1, Len(last.preText))
       /\ Len(text) = Len(last.preText) + Len(last.txt)
       /\ last.raised = "none"

\* A non-empty text was inserted in the middle of a buffer.
InsertSemanticsWitness ==
    /\ last.op = "insert"
    /\ 0 < last.at /\ last.at < Len(last.preText)
    /\ last.txt # << >>
    /\ Len(text) = Len(last.preText) + Len(last.txt)

\* C9 (under SpecMethods, where the calls are insert, delete, append and
\* undo): the history depth is the number of successful edit calls minus the
\* number of undo() calls that found a non-empty history, never negative;
\* an edit call appends exactly its command at the end, an undo() on a
\* non-empty history removes exactly the last entry, an undo() on an empty
\* history leaves it empty, and a failed edit call pushes nothing.
HistoryDepthAccounting ==
    /\ Len(command_history) = nEdits - nPops
    /\ Len(command_history) >= 0
    /\ Len(snaps) = Len(command_history)
    /\ last.op = "init" => command_history = << >>
    /\ (last.op \in EditOps /\ last.raised = "none")
       => /\ Len(command_history) = Len(last.preHist) + 1
          /\ command_history = Append(last.preHist, last.cmd[1])
          /\ last.cmd[1].position
               = (IF last.op = "append" THEN Len(last.preText) ELSE last.at)
    /\ (last.op \in EditOps /\ last.raised # "none")
       => command_history = last.preHist
    /\ (last.op = "undo" /\ last.preHist # << >>)
       => /\ Len(command_history) = Len(last.preHist) - 1
          /\ command_history = Front(last.preHist)
    /\ (last.op = "undo" /\ last.preHist = << >>)
       => command_history = << >>

\* Two edits were made, one was undone, and an edit is on top again.
HistoryDepthAccountingWitness ==
    /\ nEdits = 2 /\ nPops = 1
    /\ Len(command_history) = 1
    /\ last.op \in EditOps

\* C10 (under SpecMethods, where the calls are insert, delete, append and
\* undo): every command in the history has been executed exactly once and not
\* undone, every DeleteCommand in it holds its captured deletion, the
\* assertion of DeleteCommand.undo never fails, and a command that undo()
\* reversed was reversed once and is no longer in the history.
AppliedBeforeRecorded ==
    /\ \A i \in 1 .. Len(command_history) :
         /\ command_history[i].executed = 1
         /\ command_history[i].undone = 0
         /\ \A j \in 1 .. Len(command_history) :
              command_history[j].id = command_history[i].id => j = i
         /\ command_history[i].kind = "delete"
              => command_history[i].deletion # None
    /\ last.raised # "AssertionError"
    /\ (last.op = "undo" /\ last.preHist # << >>)
       => /\ last.cmd # None
          /\ last.cmd[1].executed = 1
          /\ last.cmd[1].undone = 1
          /\ Len(command_history) = Len(last.preHist) - 1
    /\ command_history # << >>
       => EditorUndo(State).raised = "none"

\* A DeleteCommand that removed text has just been reversed while another
\* DeleteCommand is still in the history.
AppliedBeforeRecordedWitness ==
    /\ UndidKind("delete")
    /\ last.cmd[1].deletion # None
    /\ last.cmd[1].deletion # Some(<< >>)
    /\ command_history # << >>
    /\ command_history[1].kind = "delete"

====
